---- MODULE Spec2Model ----
(***************************************************************************)
(* Test-run orchestration of the AI interview system.  The repository      *)
(* holds four revisions of the same server:                                *)
(*   "direct"     src/server.js 1-756      one Vapi call, Vapi webhook     *)
(*   "twiml"      src/server.js 757-1457   Twilio call into a TwiML        *)
(*                                         conference, Twilio webhooks     *)
(*   "simple"     src/server.js 1458-2034  conference only                 *)
(*   "conference" src/unnamed/part_000     conference and two participants *)
(* A behaviour of the model is a behaviour of one of them (variant).       *)
(***************************************************************************)
EXTENDS Integers, Sequences, FiniteSets, TLC

\* Bounds of the model
MaxRuns == 2
MaxTime == 2
MaxInputs == 3

VARIABLES
    variant,        \* which revision of the server is running
    vapiPhone,      \* config.vapi.phoneNumber is set (twiml revision)
    now,            \* the wall clock read by new Date()
    testRuns,       \* storage.testRuns: Map runId -> test run
    events,         \* storage.events:   Map runId -> list of events
    transcripts,    \* storage.transcripts: Map runId -> list of entries
    startPc,        \* position of each startTest invocation
    response,       \* the HTTP response startTest has sent, per run
    timer,          \* the auto-stop setTimeout of each run
    stopsInFlight,  \* stopTest invocations suspended on the provider, per run
    liveCalls,      \* provider side: runs whose call / conference is live
    endRequests,    \* provider side: end-call requests received, per run
    placeRequests,  \* provider side: call-placement requests received, per run
    hookError,      \* some webhook was answered by the error middleware (500)
    lastRead,       \* the response to the last GET /tests or GET /tests/:runId
    shutdown        \* the SIGTERM handler: its phase, the runs it has yet to
                    \* stop (the first one awaited), the runs it has stopped

store == <<testRuns, events, transcripts>>
procs == <<startPc, response, timer, stopsInFlight>>
provider == <<liveCalls, endRequests, placeRequests>>
\* What no handler of a run writes: the configuration, the response to the
\* last read request and the shutdown of the process.
conf == <<variant, vapiPhone, lastRead, shutdown>>
vars == <<variant, vapiPhone, now, testRuns, events, transcripts, startPc,
          response, timer, stopsInFlight, liveCalls, endRequests,
          placeRequests, hookError, lastRead, shutdown>>

Variants == {"direct", "twiml", "simple", "conference"}
RunIds == 1..MaxRuns

\* JavaScript's undefined, for identifiers and timestamps
Undefined == 0

\* Identifiers the providers assign: one call / conference per run, one more
\* call for the candidate leg, and an identifier no run ever records.
CallIdOf(r) == r
CandidateSidOf(r) == MaxRuns + r
UnknownId == 2 * MaxRuns + 1
HookIds == {Undefined, UnknownId} \cup {CallIdOf(r) : r \in RunIds}

\* participants: {}
NoParticipants == [k \in {} |-> Undefined]

Participant(status, callSid) ==
    [status |-> status, callSid |-> callSid,
     connectTime |-> Undefined, disconnectTime |-> Undefined]

NewRun(status, conferenceSid, conferenceName) ==
    [status |-> status, startTime |-> now, endTime |-> Undefined,
     participants |-> NoParticipants, vapiCallId |-> Undefined,
     conferenceSid |-> conferenceSid, conferenceName |-> conferenceName]

Has(map, runId) == runId \in DOMAIN map

\* A registry that keeps a single entry
MapSet_OneKey(map, runId, value) == (1 :> value)

MapSet(map, runId, value) ==
    IF Has(map, runId) THEN [map EXCEPT ![runId] = value]
    ELSE map @@ (runId :> value)

\* The entries' own timestamps are left out: the position in the list
\* stands for them.
\* The data object of an event: the ids and the words it carries.
Data(ids, words) == [ids |-> ids, words |-> words]

\* A saveEvent that keeps the newest entry only
saveEvent_Overwrite(ev, runId, eventType, data) ==
    MapSet(ev, runId, <<[type |-> eventType, data |-> data]>>)

saveEvent(ev, runId, eventType, data) ==
    LET entry == [type |-> eventType, data |-> data]
    IN  MapSet(ev, runId, (IF Has(ev, runId) THEN ev[runId] ELSE <<>>) \o <<entry>>)

saveTranscript(tr, runId, participantType, text, isFinal) ==
    LET entry == [participant |-> participantType, text |-> text,
                  final |-> IF isFinal = "undefined" THEN "false" ELSE isFinal]
    IN  MapSet(tr, runId, (IF Has(tr, runId) THEN tr[runId] ELSE <<>>) \o <<entry>>)

\* Array.from(storage.testRuns.values()).find(pred): first match in
\* insertion order, which is the order of the run identifiers.
Find(matching) ==
    IF matching = {} THEN Undefined
    ELSE CHOOSE r \in matching : \A q \in matching : r <= q

EventsOf(r) == IF Has(events, r) THEN events[r] ELSE <<>>
TranscriptsOf(r) == IF Has(transcripts, r) THEN transcripts[r] ELSE <<>>
CountType(log, types) == Cardinality({i \in DOMAIN log : log[i].type \in types})



\* No read request has been answered yet.
NoRead == [route |-> "none", code |-> 0, tests |-> <<>>,
           events |-> <<>>, transcripts |-> <<>>]

\* The process is serving; no SIGTERM has arrived.
Up == [phase |-> "up", queue |-> <<>>, stopped |-> {}]

Init ==
    /\ variant \in Variants
    /\ vapiPhone \in BOOLEAN
    /\ (variant # "twiml" => vapiPhone)
    /\ now = 1
    /\ testRuns = <<>>
    /\ events = <<>>
    /\ transcripts = <<>>
    /\ startPc = [r \in RunIds |-> "idle"]
    /\ response = [r \in RunIds |-> "none"]
    /\ timer = [r \in RunIds |-> "unset"]
    /\ stopsInFlight = [r \in RunIds |-> 0]
    /\ liveCalls = {}
    /\ endRequests = [r \in RunIds |-> 0]
    /\ placeRequests = [r \in RunIds |-> 0]
    /\ hookError = FALSE
    /\ lastRead = NoRead
    /\ shutdown = Up

\* Time passes.
Tick ==
    /\ now < MaxTime
    /\ now' = now + 1
    /\ UNCHANGED <<conf, store, procs, provider, hookError>>

\* The environment makes at most MaxInputs requests that leave a trace: a
\* start, a stop of a run that is not completed, a webhook that resolves to
\* a run, a read, a SIGTERM.
HookEvents == {"call_started", "call_ended", "transcript", "vapi_webhook",
               "call_status", "conference_event", "participant_event"}
Max(a, b) == IF a >= b THEN a ELSE b
InputsRecorded(r) ==
    (IF startPc[r] = "idle" THEN 0 ELSE 1)
    + Max(endRequests[r], CountType(EventsOf(r), {"test_completed"}))
    + Max(CountType(EventsOf(r), HookEvents), Len(TranscriptsOf(r)))
RECURSIVE TotalInputs(_)
TotalInputs(S) ==
    IF S = {} THEN 0
    ELSE LET x == CHOOSE y \in S : TRUE
         IN  InputsRecorded(x) + TotalInputs(S \ {x})
ReadsRecorded == IF lastRead.route = "none" THEN 0 ELSE 1
SignalsRecorded == IF shutdown.phase = "up" THEN 0 ELSE 1
InputBudget == TotalInputs(RunIds) + ReadsRecorded + SignalsRecorded < MaxInputs

\* generateRunId: the next unused identifier
CanStart(r) ==
    /\ InputBudget
    /\ startPc[r] = "idle"
    /\ \A q \in RunIds : q < r => startPc[q] # "idle"

(***************************************************************************)
(* stopTest, all revisions.  The function runs synchronously up to its     *)
(* request to the provider and resumes when the provider has answered.     *)
(***************************************************************************)

\* The request stopTest awaits: direct ends testRun.vapiCallId if set,
\* twiml ends participants.interviewer.callSid if set, simple ends
\* conferenceSid if set, conference always updates the conference.
EndsExternalCall(run) ==
    CASE variant = "direct" -> run.vapiCallId # Undefined
      [] variant = "twiml" ->
            /\ DOMAIN run.participants # {}
            /\ run.participants.interviewer.callSid # Undefined
      [] variant = "simple" -> run.conferenceSid # Undefined
      [] OTHER -> TRUE

\* A stopTest that leaves every rejected end request to its outer catch
CatchesEndError_Never == FALSE

\* direct and twiml wrap the request in its own try/catch; simple and
\* conference leave a rejection to the outer catch, which skips the update.
CatchesEndError == variant \in {"direct", "twiml"}

\* A stopTest that drops the run it has completed
CompleteRun_Deletes(r) ==
    /\ testRuns' = [q \in DOMAIN testRuns \ {r} |-> testRuns[q]]
    /\ events' = saveEvent(events, r, "test_completed", Data(<<now>>, <<>>))
    /\ UNCHANGED transcripts

\* "Update status" of stopTest
CompleteRun(r) ==
    /\ testRuns' = [testRuns EXCEPT ![r].status = "completed", ![r].endTime = now]
    /\ events' = saveEvent(events, r, "test_completed", Data(<<now - testRuns[r].startTime>>, <<>>))
    /\ UNCHANGED transcripts

\* A stopTest that does not look at the status
NonTerminal_AnyStatus(r) == Has(testRuns, r)

\* the guard of stopTest, negated: testRun && testRun.status !== 'completed'
NonTerminal(r) == Has(testRuns, r) /\ testRuns[r].status # "completed"

\* A stopTest that returns early for an unknown run only
stopTest_NoGuard(r) ==
    IF ~Has(testRuns, r)
    THEN UNCHANGED <<store, stopsInFlight, provider>>
    ELSE IF EndsExternalCall(testRuns[r])
    THEN /\ endRequests' = [endRequests EXCEPT ![r] = @ + 1]
         /\ stopsInFlight' = [stopsInFlight EXCEPT ![r] = @ + 1]
         /\ UNCHANGED <<store, liveCalls, placeRequests>>
    ELSE /\ CompleteRun(r)
         /\ UNCHANGED <<stopsInFlight, provider>>

stopTest(r) ==
    IF ~NonTerminal(r)
    THEN UNCHANGED <<store, stopsInFlight, provider>>
    ELSE IF EndsExternalCall(testRuns[r])
    THEN /\ endRequests' = [endRequests EXCEPT ![r] = @ + 1]
         /\ stopsInFlight' = [stopsInFlight EXCEPT ![r] = @ + 1]
         /\ UNCHANGED <<store, liveCalls, placeRequests>>
    ELSE /\ CompleteRun(r)
         /\ UNCHANGED <<stopsInFlight, provider>>

\* POST /tests/:runId/stop
StopApi(r) ==
    /\ NonTerminal(r) => InputBudget
    /\ stopTest(r)
    /\ UNCHANGED <<conf, now, startPc, response, timer, hookError>>

\* A stopTest that completes the run whatever the provider answered
StopTestReturns_AlwaysCompletes(r, ok) ==
    /\ liveCalls' = IF ok THEN liveCalls \ {r} ELSE liveCalls
    /\ CompleteRun(r)

\* stopTest after its await: the provider has ended the call or rejected
\* the request.
StopTestReturns(r, ok) ==
    /\ liveCalls' = IF ok THEN liveCalls \ {r} ELSE liveCalls
    /\ IF ok \/ CatchesEndError
       THEN CompleteRun(r)
       ELSE UNCHANGED store

\* The provider answers the end request and stopTest resumes.
StopTestResume(r, ok) ==
    /\ stopsInFlight[r] > 0
    /\ stopsInFlight' = [stopsInFlight EXCEPT ![r] = @ - 1]
    /\ StopTestReturns(r, ok)
    /\ UNCHANGED <<conf, now, startPc, response, timer, endRequests,
                   placeRequests, hookError>>

\* The setTimeout(..., config.testTimeout) callback of startTest
AutoStopTimer(r) ==
    /\ timer[r] = "armed"
    /\ timer' = [timer EXCEPT ![r] = "fired"]
    /\ stopTest(r)
    /\ UNCHANGED <<conf, now, startPc, response, hookError>>

(***************************************************************************)
(* direct revision: startTest                                              *)
(***************************************************************************)
StartTestDirect(r) ==
    /\ variant = "direct"
    /\ CanStart(r)
    /\ testRuns' = MapSet(testRuns, r, NewRun("starting", Undefined, Undefined))
    /\ events' = saveEvent(events, r, "test_started", Data(<<>>, <<>>))
    /\ startPc' = [startPc EXCEPT ![r] = "placing"]
    /\ placeRequests' = [placeRequests EXCEPT ![r] = @ + 1]
    /\ UNCHANGED <<conf, now, transcripts, response, timer, stopsInFlight,
                   liveCalls, endRequests, hookError>>

\* "Update test run with call details"
DirectCallDetails(run, callId) ==
    [run EXCEPT
        !.participants = [interviewer |-> Participant("calling", Undefined),
                          candidate |-> Participant("receiving", Undefined)],
        !.status = "running",
        !.vapiCallId = callId]

\* createVapiCall returns or throws and startTest resumes.
CreateVapiCallReturns(r, ok) ==
    /\ variant = "direct"
    /\ startPc[r] = "placing"
    /\ startPc' = [startPc EXCEPT ![r] = "done"]
    /\ IF ok
       THEN /\ testRuns' = [testRuns EXCEPT ![r] = DirectCallDetails(@, CallIdOf(r))]
            /\ events' = saveEvent(events, r, "vapi_call_created", Data(<<CallIdOf(r)>>, <<>>))
            /\ response' = [response EXCEPT ![r] = "success"]
            /\ timer' = [timer EXCEPT ![r] = "armed"]
            /\ liveCalls' = liveCalls \cup {r}
       ELSE /\ response' = [response EXCEPT ![r] = "error"]
            /\ UNCHANGED <<testRuns, events, timer, liveCalls>>
    /\ UNCHANGED <<conf, now, transcripts, stopsInFlight, endRequests,
                   placeRequests, hookError>>

(***************************************************************************)
(* direct revision: POST /vapi/webhook                                     *)
(***************************************************************************)
VapiTypes == {"call-start", "call-end", "transcript", "status-update"}
NoTranscript == [present |-> FALSE, text |-> "undefined", isFinal |-> "undefined"]

\* The request bodies the provider posts: transcript and message are read
\* for the transcript type only.
Spoken(text, isFinal, role) ==
    [transcript |-> [present |-> TRUE, text |-> text, isFinal |-> isFinal],
     role |-> role]
TranscriptBodies ==
    {Spoken("hello", "true", "user"),
     Spoken("hello", "undefined", "assistant"),
     Spoken("undefined", "true", "undefined"),
     [transcript |-> NoTranscript, role |-> "undefined"]}
VapiBodies ==
    {[type |-> "transcript", callId |-> id,
      transcript |-> b.transcript, role |-> b.role] :
        id \in HookIds, b \in TranscriptBodies}
    \cup
    [type : VapiTypes \ {"transcript"}, callId : HookIds,
     transcript : {NoTranscript}, role : {"undefined"}]

\* A lookup that takes the first registered run
FindByVapiCallId_First(callId) == Find(DOMAIN testRuns)

\* .find(run => run.vapiCallId === call?.id)
FindByVapiCallId(callId) ==
    Find({r \in DOMAIN testRuns : testRuns[r].vapiCallId = callId})

\* An attribution that knows the assistant only
ParticipantType_AssistantOnly(role) ==
    IF role = "assistant" THEN "interviewer" ELSE "candidate"

\* message?.role === 'user' ? 'candidate' : 'interviewer'
ParticipantType(role) == IF role = "user" THEN "candidate" ELSE "interviewer"

\* A handler that marks the interviewer only
SetBothStatus_InterviewerOnly(run, status) ==
    [run EXCEPT !.participants.interviewer.status = status]

SetBothStatus(run, status) ==
    [run EXCEPT !.participants.interviewer.status = status,
                !.participants.candidate.status = status]

\* A handler whose default case marks the run active
VapiWebhookOn_Activates(r, type, callId, transcript, role) ==
    /\ testRuns' = [testRuns EXCEPT ![r].status = "active"]
    /\ events' = saveEvent(events, r, "vapi_webhook", Data(<<>>, <<type>>))
    /\ UNCHANGED transcripts
    /\ UNCHANGED hookError

\* The handler's effect on the stores and the status it answers; a
\* TypeError thrown half way keeps the writes made before it and is
\* answered by the error middleware with 500.
VapiWebhookOn(r, type, callId, transcript, role) ==
    LET run == testRuns[r]
        bare == DOMAIN run.participants = {}
    IN
    CASE type = "call-start" ->
            IF bare
            THEN /\ testRuns' = [testRuns EXCEPT ![r].status = "active"]
                 /\ UNCHANGED <<events, transcripts>>
                 /\ hookError' = TRUE
            ELSE /\ testRuns' = [testRuns EXCEPT
                                   ![r] = SetBothStatus([@ EXCEPT !.status = "active"],
                                                        "connected")]
                 /\ events' = saveEvent(events, r, "call_started", Data(<<callId>>, <<>>))
                 /\ UNCHANGED transcripts
                 /\ UNCHANGED hookError
      [] type = "call-end" ->
            IF bare
            THEN /\ testRuns' = [testRuns EXCEPT ![r].status = "completed",
                                                 ![r].endTime = now]
                 /\ UNCHANGED <<events, transcripts>>
                 /\ hookError' = TRUE
            ELSE /\ testRuns' = [testRuns EXCEPT
                                   ![r] = SetBothStatus([@ EXCEPT !.status = "completed",
                                                                  !.endTime = now],
                                                        "disconnected")]
                 /\ events' = saveEvent(events, r, "call_ended", Data(<<callId>>, <<>>))
                 /\ UNCHANGED transcripts
                 /\ UNCHANGED hookError
      [] type = "transcript" ->
            IF transcript.present
            THEN /\ transcripts' = saveTranscript(transcripts, r, ParticipantType(role),
                                                  transcript.text, transcript.isFinal)
                 /\ events' = saveEvent(events, r, "transcript",
                                        Data(<<>>, <<ParticipantType(role), transcript.text,
                                                 transcript.isFinal>>))
                 /\ UNCHANGED testRuns
                 /\ hookError' = (hookError \/ transcript.text = "undefined")
            ELSE /\ UNCHANGED store
                 /\ UNCHANGED hookError
      [] OTHER ->
            /\ events' = saveEvent(events, r, "vapi_webhook", Data(<<>>, <<type>>))
            /\ UNCHANGED <<testRuns, transcripts>>
            /\ UNCHANGED hookError


VapiWebhook(type, callId, transcript, role) ==
    /\ variant = "direct"
    /\ LET r == FindByVapiCallId(callId) IN
       IF r = Undefined
       THEN /\ UNCHANGED hookError
            /\ UNCHANGED store
       ELSE /\ InputBudget
            /\ VapiWebhookOn(r, type, callId, transcript, role)
    /\ UNCHANGED <<conf, now, procs, provider>>

(***************************************************************************)
(* twiml revision: startTest, its deferred step and the Twilio webhooks    *)
(***************************************************************************)
StartTestTwiml(r) ==
    /\ variant = "twiml"
    /\ CanStart(r)
    /\ IF vapiPhone
       THEN /\ testRuns' = MapSet(testRuns, r, NewRun("starting", Undefined, CallIdOf(r)))
            /\ events' = saveEvent(events, r, "test_started", Data(<<>>, <<>>))
            /\ startPc' = [startPc EXCEPT ![r] = "placing"]
            /\ placeRequests' = [placeRequests EXCEPT ![r] = @ + 1]
            /\ UNCHANGED response
       ELSE \* 'VAPI_PHONE_NUMBER is required but not configured'
            /\ startPc' = [startPc EXCEPT ![r] = "done"]
            /\ response' = [response EXCEPT ![r] = "error"]
            /\ UNCHANGED <<testRuns, events, placeRequests>>
    /\ UNCHANGED <<conf, now, transcripts, timer, stopsInFlight, liveCalls,
                   endRequests, hookError>>

\* twilioClient.calls.create returns or throws and startTest resumes.
TwilioCallReturns(r, ok) ==
    /\ variant = "twiml"
    /\ startPc[r] = "placing"
    /\ startPc' = [startPc EXCEPT ![r] = IF ok THEN "deferred" ELSE "done"]
    /\ response' = [response EXCEPT ![r] = IF ok THEN "success" ELSE "error"]
    /\ liveCalls' = IF ok THEN liveCalls \cup {r} ELSE liveCalls
    /\ UNCHANGED <<conf, now, store, timer, stopsInFlight, endRequests,
                   placeRequests, hookError>>

TwimlParticipants(run, callSid) ==
    [run EXCEPT
        !.participants = [interviewer |-> Participant("calling", callSid),
                          candidate |-> Participant("pending", Undefined)],
        !.status = "running"]

\* The setTimeout(..., 5000) callback of startTest
DeferredTwiml(r) ==
    /\ variant = "twiml"
    /\ startPc[r] = "deferred"
    /\ startPc' = [startPc EXCEPT ![r] = "done"]
    /\ testRuns' = [testRuns EXCEPT ![r] = TwimlParticipants(@, CallIdOf(r))]
    /\ events' = saveEvent(events, r, "participants_added", Data(<<CallIdOf(r)>>, <<>>))
    /\ timer' = [timer EXCEPT ![r] = "armed"]
    /\ UNCHANGED <<conf, now, transcripts, response, stopsInFlight, provider, hookError>>

CallStatuses == {"answered", "completed", "ringing"}
LegEvents == {"answered", "completed"}

\* .find(run => run.participants?.interviewer?.callSid === CallSid)
InterviewerCallSid(run) ==
    IF DOMAIN run.participants = {} THEN Undefined
    ELSE run.participants.interviewer.callSid
FindByCallSid(CallSid) ==
    Find({r \in DOMAIN testRuns : InterviewerCallSid(testRuns[r]) = CallSid})

CallStatusUpdate(run, CallStatus) ==
    IF DOMAIN run.participants = {} THEN run
    ELSE [run EXCEPT
            !.participants.interviewer.status = CallStatus,
            !.participants.interviewer.connectTime =
                IF CallStatus = "answered" THEN now ELSE @,
            !.participants.interviewer.disconnectTime =
                IF CallStatus = "completed" THEN now ELSE @]

\* POST /twilio/call-status
TwilioCallStatus(CallSid, CallStatus) ==
    /\ variant = "twiml"
    /\ LET r == FindByCallSid(CallSid) IN
       IF r = Undefined
       THEN UNCHANGED store
       ELSE /\ InputBudget
            /\ testRuns' = [testRuns EXCEPT ![r] = CallStatusUpdate(@, CallStatus)]
            /\ events' = saveEvent(events, r, "call_status", Data(<<CallSid>>, <<CallStatus>>))
            /\ UNCHANGED transcripts
    /\ UNCHANGED hookError
    /\ UNCHANGED <<conf, now, procs, provider>>

ConferenceEvents == {"conference-start", "conference-end", "participant-join"}
StatusEvents == {"conference-start", "conference-end"}

\* .find(run => run.conferenceName === conferenceName)
FindByConferenceName(FriendlyName) ==
    Find({r \in DOMAIN testRuns : testRuns[r].conferenceName = FriendlyName})

ConferenceStatusUpdate(run, ConferenceSid, StatusCallbackEvent) ==
    LET withSid == IF run.conferenceSid = Undefined /\ ConferenceSid # Undefined
                   THEN [run EXCEPT !.conferenceSid = ConferenceSid]
                   ELSE run
    IN  CASE StatusCallbackEvent = "conference-start" ->
                [withSid EXCEPT !.status = "running"]
          [] StatusCallbackEvent = "conference-end" ->
                [withSid EXCEPT !.status = "completed", !.endTime = now]
          [] OTHER -> withSid

\* POST /twilio/conference-status
TwilioConferenceStatus(FriendlyName, ConferenceSid, StatusCallbackEvent) ==
    /\ variant = "twiml"
    /\ LET r == FindByConferenceName(FriendlyName) IN
       IF r = Undefined
       THEN UNCHANGED store
       ELSE /\ InputBudget
            /\ testRuns' = [testRuns EXCEPT
                 ![r] = ConferenceStatusUpdate(@, ConferenceSid, StatusCallbackEvent)]
            /\ events' = saveEvent(events, r, "conference_event",
                                   Data(<<ConferenceSid>>, <<StatusCallbackEvent>>))
            /\ UNCHANGED transcripts
    /\ UNCHANGED hookError
    /\ UNCHANGED <<conf, now, procs, provider>>

(***************************************************************************)
(* simple and conference revisions: startTest and the Twilio webhooks      *)
(***************************************************************************)
StartTestConference(r) ==
    /\ variant \in {"simple", "conference"}
    /\ CanStart(r)
    /\ startPc' = [startPc EXCEPT ![r] = "placing"]
    /\ placeRequests' = [placeRequests EXCEPT ![r] = @ + 1]
    /\ UNCHANGED <<conf, now, store, response, timer, stopsInFlight,
                   liveCalls, endRequests, hookError>>

\* twilioClient.conferences.create returns or throws and startTest resumes:
\* simple stores the run as 'created' and answers, conference stores it as
\* 'starting' and adds the interviewer (step 3a).
ConferenceCreateReturns(r, ok) ==
    /\ variant \in {"simple", "conference"}
    /\ startPc[r] = "placing"
    /\ IF ok
       THEN /\ testRuns' = MapSet(testRuns, r,
                 NewRun(IF variant = "simple" THEN "created" ELSE "starting",
                        CallIdOf(r), Undefined))
            /\ events' = saveEvent(events, r, "test_started", Data(<<CallIdOf(r)>>, <<>>))
            /\ liveCalls' = liveCalls \cup {r}
            /\ IF variant = "simple"
               THEN /\ startPc' = [startPc EXCEPT ![r] = "done"]
                    /\ response' = [response EXCEPT ![r] = "success"]
                    /\ UNCHANGED placeRequests
               ELSE /\ startPc' = [startPc EXCEPT ![r] = "adding"]
                    /\ placeRequests' = [placeRequests EXCEPT ![r] = @ + 1]
                    /\ UNCHANGED response
       ELSE /\ startPc' = [startPc EXCEPT ![r] = "done"]
            /\ response' = [response EXCEPT ![r] = "error"]
            /\ UNCHANGED <<testRuns, events, liveCalls, placeRequests>>
    /\ UNCHANGED <<conf, now, transcripts, timer, stopsInFlight, endRequests, hookError>>

\* Step 3a returns or throws.
InterviewerAddReturns(r, ok) ==
    /\ variant = "conference"
    /\ startPc[r] = "adding"
    /\ startPc' = [startPc EXCEPT ![r] = IF ok THEN "deferred" ELSE "done"]
    /\ response' = [response EXCEPT ![r] = IF ok THEN "success" ELSE "error"]
    /\ UNCHANGED <<conf, now, store, timer, stopsInFlight, provider, hookError>>

\* The setTimeout(..., 5000) callback calls createUltravoxCall (step 3b).
DeferredConference(r) ==
    /\ variant = "conference"
    /\ startPc[r] = "deferred"
    /\ startPc' = [startPc EXCEPT ![r] = "ultravox"]
    /\ placeRequests' = [placeRequests EXCEPT ![r] = @ + 1]
    /\ UNCHANGED <<conf, now, store, response, timer, stopsInFlight,
                   liveCalls, endRequests, hookError>>

\* createUltravoxCall returns, and the candidate is added, or throws.
UltravoxCallReturns(r, ok) ==
    /\ variant = "conference"
    /\ startPc[r] = "ultravox"
    /\ startPc' = [startPc EXCEPT ![r] = IF ok THEN "adding2" ELSE "done"]
    /\ placeRequests' = [placeRequests EXCEPT ![r] = IF ok THEN @ + 1 ELSE @]
    /\ UNCHANGED <<conf, now, store, response, timer, stopsInFlight,
                   liveCalls, endRequests, hookError>>

ConferenceParticipants(run, interviewerSid, candidateSid) ==
    [run EXCEPT
        !.participants = [interviewer |-> Participant("undefined", interviewerSid),
                          candidate |-> Participant("undefined", candidateSid)],
        !.status = "running"]

\* The candidate's participants.create returns or throws: "Update storage".
CandidateAddReturns(r, ok) ==
    /\ variant = "conference"
    /\ startPc[r] = "adding2"
    /\ startPc' = [startPc EXCEPT ![r] = "done"]
    /\ IF ok
       THEN /\ testRuns' = [testRuns EXCEPT
                 ![r] = ConferenceParticipants(@, CallIdOf(r), CandidateSidOf(r))]
            /\ events' = saveEvent(events, r, "participants_added",
                                   Data(<<CallIdOf(r), CandidateSidOf(r)>>, <<>>))
            /\ timer' = [timer EXCEPT ![r] = "armed"]
       ELSE UNCHANGED <<testRuns, events, timer>>
    /\ UNCHANGED <<conf, now, transcripts, response, stopsInFlight, provider, hookError>>

\* .find(run => run.conferenceSid === ConferenceSid)
FindByConferenceSid(ConferenceSid) ==
    Find({r \in DOMAIN testRuns : testRuns[r].conferenceSid = ConferenceSid})

\* POST /twilio/status
TwilioStatus(ConferenceSid, StatusCallbackEvent) ==
    /\ variant \in {"simple", "conference"}
    /\ LET r == FindByConferenceSid(ConferenceSid) IN
       IF r = Undefined
       THEN UNCHANGED store
       ELSE /\ InputBudget
            /\ events' = saveEvent(events, r, "conference_event",
                                   Data(<<ConferenceSid>>, <<StatusCallbackEvent>>))
            /\ UNCHANGED <<testRuns, transcripts>>
    /\ UNCHANGED hookError
    /\ UNCHANGED <<conf, now, procs, provider>>

\* "Update participant connection times"
ParticipantTimes(run, CallSid, StatusCallbackEvent) ==
    [run EXCEPT !.participants =
        [role \in DOMAIN run.participants |->
            IF run.participants[role].callSid = CallSid
            THEN [run.participants[role] EXCEPT
                    !.connectTime =
                        IF StatusCallbackEvent = "answered" THEN now ELSE @,
                    !.disconnectTime =
                        IF StatusCallbackEvent = "completed" THEN now ELSE @]
            ELSE run.participants[role]]]

\* POST /twilio/participant-status
TwilioParticipantStatus(CallSid, ConferenceSid, StatusCallbackEvent) ==
    /\ variant = "conference"
    /\ LET r == FindByConferenceSid(ConferenceSid) IN
       IF r = Undefined
       THEN UNCHANGED store
       ELSE /\ InputBudget
            /\ events' = saveEvent(events, r, "participant_event",
                                   Data(<<CallSid>>, <<StatusCallbackEvent>>))
            /\ testRuns' = [testRuns EXCEPT
                 ![r] = ParticipantTimes(@, CallSid, StatusCallbackEvent)]
            /\ UNCHANGED transcripts
    /\ UNCHANGED hookError
    /\ UNCHANGED <<conf, now, procs, provider>>

\* POST /webhooks/transcript/:vendor/:runId
TranscriptWebhook(vendor, runId) ==
    /\ variant = "conference"
    /\ InputBudget
    /\ transcripts' = saveTranscript(transcripts, runId,
                         IF vendor = "vapi" THEN "interviewer" ELSE "candidate",
                         "hello", "true")
    /\ UNCHANGED hookError
    /\ UNCHANGED <<conf, now, testRuns, events, procs, provider>>

(***************************************************************************)
(* The read endpoints, the same in every revision                          *)
(***************************************************************************)
\* A read that answers without the logs
GetTest_NoLogs(runId) ==
    /\ InputBudget
    /\ lastRead' =
         IF Has(testRuns, runId)
         THEN [route |-> "get", code |-> 200,
               tests |-> (runId :> testRuns[runId]),
               events |-> <<>>, transcripts |-> <<>>]
         ELSE [route |-> "get", code |-> 404, tests |-> <<>>,
               events |-> <<>>, transcripts |-> <<>>]
    /\ UNCHANGED <<variant, vapiPhone, shutdown, now, store, procs, provider,
                   hookError>>

\* GET /tests/:runId
GetTest(runId) ==
    /\ InputBudget
    /\ lastRead' =
         IF Has(testRuns, runId)
         THEN [route |-> "get", code |-> 200,
               tests |-> (runId :> testRuns[runId]),
               events |-> EventsOf(runId),
               transcripts |-> TranscriptsOf(runId)]
         ELSE [route |-> "get", code |-> 404, tests |-> <<>>,
               events |-> <<>>, transcripts |-> <<>>]
    /\ UNCHANGED <<variant, vapiPhone, shutdown, now, store, procs, provider,
                   hookError>>

\* GET /tests
ListTests ==
    /\ InputBudget
    /\ lastRead' = [route |-> "list", code |-> 200, tests |-> testRuns,
                    events |-> <<>>, transcripts |-> <<>>]
    /\ UNCHANGED <<variant, vapiPhone, shutdown, now, store, procs, provider,
                   hookError>>

\* The webhooks the providers deliver, with any request body.
Webhook ==
    \/ \E body \in VapiBodies :
            VapiWebhook(body.type, body.callId, body.transcript, body.role)
    \/ \E CallSid \in HookIds, CallStatus \in CallStatuses :
            TwilioCallStatus(CallSid, CallStatus)
    \/ \E FriendlyName \in HookIds, StatusCallbackEvent \in ConferenceEvents :
          \E ConferenceSid \in {Undefined, FriendlyName} :
            TwilioConferenceStatus(FriendlyName, ConferenceSid, StatusCallbackEvent)
    \/ \E ConferenceSid \in HookIds, StatusCallbackEvent \in StatusEvents :
            TwilioStatus(ConferenceSid, StatusCallbackEvent)
    \/ \E ConferenceSid \in HookIds, StatusCallbackEvent \in LegEvents :
          \E CallSid \in {ConferenceSid, CandidateSidOf(ConferenceSid)} :
            TwilioParticipantStatus(CallSid, ConferenceSid, StatusCallbackEvent)
    \/ \E vendor \in {"vapi", "ultravox"}, runId \in RunIds :
            TranscriptWebhook(vendor, runId)

\* The steps the server takes by itself once a request has started them:
\* a provider call returns, a timer fires.
Internal(r) ==
    \/ \E ok \in BOOLEAN : CreateVapiCallReturns(r, ok)
    \/ \E ok \in BOOLEAN : TwilioCallReturns(r, ok)
    \/ DeferredTwiml(r)
    \/ \E ok \in BOOLEAN : ConferenceCreateReturns(r, ok)
    \/ \E ok \in BOOLEAN : InterviewerAddReturns(r, ok)
    \/ DeferredConference(r)
    \/ \E ok \in BOOLEAN : UltravoxCallReturns(r, ok)
    \/ \E ok \in BOOLEAN : CandidateAddReturns(r, ok)
    \/ AutoStopTimer(r)
    \/ \E ok \in BOOLEAN : StopTestResume(r, ok)

StartTest(r) ==
    \/ StartTestDirect(r)
    \/ StartTestTwiml(r)
    \/ StartTestConference(r)

Next ==
    \/ Tick
    \/ \E r \in RunIds : StartTest(r)
    \/ \E r \in RunIds : Internal(r)
    \/ \E r \in RunIds : StopApi(r)
    \/ Webhook
    \/ \E runId \in RunIds : GetTest(runId)
    \/ ListTests

Spec == Init /\ [][Next]_vars

(***************************************************************************)
(* process.on('SIGTERM')                                                   *)
(***************************************************************************)
\* Array.from(storage.testRuns.values()).filter(test => test.status === 'running')
IsRunning(r) == Has(testRuns, r) /\ testRuns[r].status = "running"
RunningTests == SelectSeq([i \in 1..MaxRuns |-> i], IsRunning)

\* The runs at the head of the queue whose stopTest returns at once
RECURSIVE LeadingCompleted(_)
LeadingCompleted(queue) ==
    IF queue = <<>> \/ NonTerminal(Head(queue)) THEN {}
    ELSE {Head(queue)} \cup LeadingCompleted(Tail(queue))

RECURSIVE DropCompleted(_)
DropCompleted(queue) ==
    IF queue = <<>> \/ NonTerminal(Head(queue)) THEN queue
    ELSE DropCompleted(Tail(queue))

\* The for loop of the handler from the given queue on: stopTest of the
\* first run that is not completed sends its end request and is awaited;
\* with no run left the process exits.
ShutdownLoop(queue, stopped) ==
    LET left == DropCompleted(queue)
        called == stopped \cup LeadingCompleted(queue)
    IN  IF left = <<>>
        THEN /\ shutdown' = [phase |-> "exited", queue |-> <<>>, stopped |-> called]
             /\ UNCHANGED endRequests
        ELSE /\ shutdown' = [phase |-> "stopping", queue |-> left,
                             stopped |-> called \cup {Head(left)}]
             /\ endRequests' = [endRequests EXCEPT ![Head(left)] = @ + 1]

\* SIGTERM arrives: the revisions of server.js exit at once, part_000 stops
\* the runs whose status is 'running' one after the other and then exits.
Sigterm ==
    /\ InputBudget
    /\ shutdown.phase = "up"
    /\ ShutdownLoop(IF variant = "conference" THEN RunningTests ELSE <<>>, {})
    /\ UNCHANGED <<variant, vapiPhone, lastRead, now, store, procs, liveCalls,
                   placeRequests, hookError>>

\* The stopTest the handler awaits resumes, and the loop goes on.
SigtermResume(ok) ==
    /\ shutdown.phase = "stopping"
    /\ StopTestReturns(Head(shutdown.queue), ok)
    /\ ShutdownLoop(Tail(shutdown.queue), shutdown.stopped)
    /\ UNCHANGED <<variant, vapiPhone, lastRead, now, procs, placeRequests,
                   hookError>>

\* The server until the process has exited
NextShutdown ==
    \/ shutdown.phase # "exited" /\ Next
    \/ Sigterm
    \/ \E ok \in BOOLEAN : SigtermResume(ok)

ShutdownSpec == Init /\ [][NextShutdown]_vars

\* Armed timers fire and calls to the providers return; requests and
\* webhooks may or may not arrive.
Fairness == \A r \in RunIds : WF_vars(Internal(r))

FairSpec == Spec /\ Fairness

\* The direct revision when no webhook and no stop request ever arrives.
InitDirect == Init /\ variant = "direct"

NextTimeoutOnly ==
    \/ Tick
    \/ \E r \in RunIds : StartTestDirect(r)
    \/ \E r \in RunIds, ok \in BOOLEAN : CreateVapiCallReturns(r, ok)
    \/ \E r \in RunIds : AutoStopTimer(r)
    \/ \E r \in RunIds, ok \in BOOLEAN : StopTestResume(r, ok)

TimeoutOnlySpec ==
    /\ InitDirect
    /\ [][NextTimeoutOnly]_vars
    /\ \A r \in RunIds :
        /\ WF_vars(\E ok \in BOOLEAN : CreateVapiCallReturns(r, ok))
        /\ WF_vars(AutoStopTimer(r))
        /\ WF_vars(\E ok \in BOOLEAN : StopTestResume(r, ok))

StatusOf(r) == IF Has(testRuns, r) THEN testRuns[r].status ELSE "none"

\* The fields of a run that a terminal run is said to keep
Settled(r) ==
    <<testRuns[r].status, testRuns[r].endTime, testRuns[r].participants>>

\* A webhook that carries identifier id
WebhookWith(id) ==
    \/ \E body \in VapiBodies :
        /\ body.callId = id
        /\ VapiWebhook(body.type, body.callId, body.transcript, body.role)
    \/ \E CallStatus \in CallStatuses : TwilioCallStatus(id, CallStatus)
    \/ \E StatusCallbackEvent \in ConferenceEvents :
            TwilioConferenceStatus(id, id, StatusCallbackEvent)
    \/ \E StatusCallbackEvent \in StatusEvents :
            TwilioStatus(id, StatusCallbackEvent)

\* The identifiers the runs have recorded
RecordedIds ==
    UNION {{testRuns[r].vapiCallId, testRuns[r].conferenceSid,
            testRuns[r].conferenceName, InterviewerCallSid(testRuns[r])} :
           r \in DOMAIN testRuns} \ {Undefined}

\* A call-end or conference-end webhook that resolves to run r
TerminalWebhook(r) ==
    \/ \E id \in HookIds :
        /\ FindByVapiCallId(id) = r
        /\ VapiWebhook("call-end", id, NoTranscript, "undefined")
    \/ \E id \in HookIds, sid \in HookIds :
        /\ FindByConferenceName(id) = r
        /\ TwilioConferenceStatus(id, sid, "conference-end")

\* C1: of two stop calls in sequence the first, when it returns, leaves
\* the run completed with one more test_completed event, and a stop call
\* that starts after an earlier one has sent its end request and returned
\* sends no further request and changes neither the run nor its log.
C1_StopTwiceCompletesOnce ==
    [][\A r \in RunIds :
        /\ (stopsInFlight[r] = 1 /\ \E ok \in BOOLEAN : StopTestResume(r, ok))
              => /\ StatusOf(r)' = "completed"
                 /\ CountType(EventsOf(r), {"test_completed"})' =
                        CountType(EventsOf(r), {"test_completed"}) + 1
        /\ (endRequests[r] >= 1 /\ stopsInFlight[r] = 0 /\ StopApi(r))
              => UNCHANGED <<store, provider>>]_vars

\* C2: once a run is completed no webhook changes its status, endTime or
\* participant records.
C2_CompletedRunKeepsFields ==
    [][\A r \in RunIds :
        (StatusOf(r) = "completed" /\ Webhook) => Settled(r)' = Settled(r)]_vars

\* C3: a call-end or conference-end webhook for a run that is already
\* completed is a no-op: endTime is not recorded again and the run does not
\* change.
C3_SecondTerminalEventIsNoOp ==
    [][\A r \in RunIds :
        (StatusOf(r) = "completed" /\ TerminalWebhook(r))
            => /\ testRuns'[r].endTime = testRuns[r].endTime
               /\ testRuns'[r].status = "completed"]_vars

\* C4: every run that reaches 'active' eventually reaches 'completed',
\* given that armed timers fire and provider calls return.
C4_ActiveLeadsToCompleted ==
    \A r \in RunIds : (StatusOf(r) = "active") ~> (StatusOf(r) = "completed")

\* C5: every run placed in the registry eventually reaches a terminal
\* status (completed or failed), given that timers fire and provider calls
\* return.
C5_RegisteredLeadsToTerminal ==
    \A r \in RunIds :
        Has(testRuns, r) ~> (StatusOf(r) \in {"completed", "failed"})

\* C6: a webhook whose identifier no run has recorded, a missing identifier
\* included, leaves every run, event log and transcript unchanged.
C6_UnknownIdMutatesNothing ==
    [][\A id \in HookIds :
        (id \notin RecordedIds /\ WebhookWith(id)) => UNCHANGED store]_vars

\* C7: every webhook is answered with HTTP 200: no handler ends in the
\* error response.
C7_WebhookAlwaysAcknowledged == ~hookError

\* C8: a start whose first placement call was rejected has made exactly one
\* more placement attempt before it answers with the failure, and a start
\* whose first placement call succeeded has made no other.
C8_SecondStrategyTriedOnce ==
    \A r \in RunIds :
        variant = "direct" =>
            /\ response[r] = "error" => placeRequests[r] = 2
            /\ response[r] = "success" => placeRequests[r] = 1

\* C9: when startTest answers with a failure, the run, if it is in the
\* registry, has status 'failed'.
C9_FailedSetupMarksRunFailed ==
    \A r \in RunIds :
        (response[r] = "error" /\ Has(testRuns, r)) => StatusOf(r) = "failed"

\* The status changes of the timeout path: stored as 'starting', 'running'
\* once the call is placed, 'completed' by the stopTest the timer calls.
TimeoutPathOrder ==
    [][\A r \in RunIds :
        StatusOf(r)' # StatusOf(r) =>
            <<StatusOf(r), StatusOf(r)'>> \in {<<"none", "starting">>,
                                              <<"starting", "running">>,
                                              <<"running", "completed">>}]_vars

\* C10 as stated: with no webhook a successfully started run goes through
\* starting, the connecting status ('running') and completed in that order
\* by the timeout alone, and once it is completed its call has been torn
\* down.
C10_TimeoutPathTearsDown ==
    /\ TimeoutPathOrder
    /\ \A r \in RunIds : (response[r] = "success") ~> (StatusOf(r) = "completed")
    /\ [](\A r \in RunIds : StatusOf(r) = "completed" => r \notin liveCalls)

\* C10 amended: with no webhook a successfully started run goes through
\* starting, running and completed in that order by the timeout alone, and
\* once it is completed exactly one end request has been sent for its call
\* and has been answered, whether the provider accepted it or not.
C10_TimeoutPathRequestsEnd ==
    /\ TimeoutPathOrder
    /\ \A r \in RunIds : (response[r] = "success") ~> (StatusOf(r) = "completed")
    /\ [](\A r \in RunIds :
            StatusOf(r) = "completed" =>
                endRequests[r] = 1 /\ stopsInFlight[r] = 0)

\* A run completed by its timer although the provider rejected the end
\* request: the call is still live.
C10_CompletedByTimeout ==
    \E r \in RunIds :
        /\ StatusOf(r) = "completed"
        /\ response[r] = "success"
        /\ timer[r] = "fired"
        /\ endRequests[r] = 1
        /\ r \in liveCalls

\* C11: a call-status 'completed' event for the interviewer leg of a run
\* that has recorded the leg's 'answered' event leaves the run completed,
\* the interviewer 'disconnected' and the connect time earlier than the
\* disconnect time.
C11_AnsweredThenCompletedEndsRun ==
    [][\A r \in RunIds, sid \in HookIds :
        (/\ sid # Undefined
         /\ FindByCallSid(sid) = r
         /\ testRuns[r].participants.interviewer.connectTime # Undefined
         /\ TwilioCallStatus(sid, "completed"))
        => /\ testRuns'[r].status = "completed"
           /\ testRuns'[r].participants.interviewer.status = "disconnected"
           /\ testRuns'[r].participants.interviewer.connectTime <
                testRuns'[r].participants.interviewer.disconnectTime]_vars

\* C13: a stop trigger that overlaps a stopTest still awaiting the provider
\* sends no further end request, and a stopTest that resumes on a run
\* completed in the meantime writes neither endTime nor a terminal event.
C13_TeardownAtMostOnce ==
    [][\A r \in RunIds :
        /\ (stopsInFlight[r] > 0 /\ (StopApi(r) \/ AutoStopTimer(r)))
              => endRequests'[r] = endRequests[r]
        /\ (StatusOf(r) = "completed" /\ \E ok \in BOOLEAN : StopTestResume(r, ok))
              => /\ testRuns'[r] = testRuns[r]
                 /\ EventsOf(r)' = EventsOf(r)]_vars

\* C14: a stopTest that has sent its end request finishes, whatever the
\* provider answers, with the run completed, endTime recorded and the
\* test_completed event appended.
C14_StopAlwaysCompletes ==
    [][\A r \in RunIds :
        (\E ok \in BOOLEAN : StopTestResume(r, ok))
        => /\ testRuns'[r].status = "completed"
           /\ testRuns'[r].endTime = now
           /\ Len(EventsOf(r)') = Len(EventsOf(r)) + 1
           /\ EventsOf(r)'[Len(EventsOf(r)')].type = "test_completed"]_vars

\* C17: every change of a run's status follows an edge of the design:
\* starting to connecting ('running') to active to completed, failed from
\* starting or connecting, completed from any non-terminal status.
C17_StatusFollowsEdges ==
    [][\A r \in RunIds :
        StatusOf(r)' # StatusOf(r)
            => <<StatusOf(r), StatusOf(r)'>> \in
                 {<<"none", "starting">>, <<"starting", "running">>,
                  <<"running", "active">>, <<"active", "completed">>,
                  <<"starting", "failed">>, <<"running", "failed">>,
                  <<"starting", "completed">>, <<"running", "completed">>}]_vars

\* C18: a call-start webhook carrying the call id recorded on a run in the
\* connecting status ('running') makes the run active, both participants
\* connected, and appends one call_started event to the run's log.
C18_CallStartActivates ==
    [][\A r \in RunIds :
        (/\ StatusOf(r) = "running"
         /\ testRuns[r].vapiCallId # Undefined
         /\ VapiWebhook("call-start", testRuns[r].vapiCallId, NoTranscript, "undefined"))
        => /\ testRuns'[r].status = "active"
           /\ testRuns'[r].participants.interviewer.status = "connected"
           /\ testRuns'[r].participants.candidate.status = "connected"
           /\ EventsOf(r)' =
                Append(EventsOf(r),
                       [type |-> "call_started",
                        data |-> Data(<<testRuns[r].vapiCallId>>, <<>>)])]_vars

\* A run made active by the call-start webhook of its own call
C18_RunActivated ==
    \E r \in RunIds :
        /\ StatusOf(r) = "active"
        /\ testRuns[r].vapiCallId = CallIdOf(r)
        /\ testRuns[r].participants.interviewer.status = "connected"
        /\ testRuns[r].participants.candidate.status = "connected"
        /\ EventsOf(r)[Len(EventsOf(r))].type = "call_started"

\* C19: a run whose placement has succeeded holds both participant
\* records and a status past 'starting', and its timer has been armed.
C19_PlacedRunIsComplete ==
    \A r \in RunIds :
        response[r] = "success"
            => /\ Has(testRuns, r)
               /\ DOMAIN testRuns[r].participants # {}
               /\ testRuns[r].status \notin {"starting", "created"}
               /\ timer[r] # "unset"

\* C20: the timer firing for a run that is already completed sends no end
\* request, starts no stopTest, and changes neither the run nor the logs.
C20_LateTimerIsNoOp ==
    [][\A r \in RunIds :
        (StatusOf(r) = "completed" /\ AutoStopTimer(r))
            => UNCHANGED <<store, provider, stopsInFlight>>]_vars

\* The timer has fired on a run that a call-end webhook had completed: no
\* end request was ever sent for its call.
C20_TimerFiredAfterCompletion ==
    \E r \in RunIds :
        /\ StatusOf(r) = "completed"
        /\ timer[r] = "fired"
        /\ testRuns[r].vapiCallId # Undefined
        /\ endRequests[r] = 0
        /\ CountType(EventsOf(r), {"call_ended"}) = 1
        /\ CountType(EventsOf(r), {"test_completed"}) = 0

\* The identifiers the provider gave to the calls of run r's own start
OwnIds(r) == {Undefined, CallIdOf(r), CandidateSidOf(r)}

\* Run r holds identifiers of its own start request only; the duration in
\* a test_completed event is not an identifier.
OwnDataOnly(r) ==
    LET run == testRuns[r] IN
    /\ {run.vapiCallId, run.conferenceSid, run.conferenceName} \subseteq OwnIds(r)
    /\ \A role \in DOMAIN run.participants :
            run.participants[role].callSid \in OwnIds(r)
    /\ \A i \in DOMAIN EventsOf(r) :
            EventsOf(r)[i].type # "test_completed" =>
                \A j \in DOMAIN EventsOf(r)[i].data.ids :
                    EventsOf(r)[i].data.ids[j] \in OwnIds(r)

C16_ReadsChangeNothing ==
    [][/\ \A runId \in RunIds :
            GetTest(runId) =>
                /\ UNCHANGED <<testRuns, events, transcripts>>
                /\ IF runId \in DOMAIN testRuns
                   THEN /\ lastRead'.code = 200
                        /\ lastRead'.tests = (runId :> testRuns[runId])
                        /\ lastRead'.events =
                             (IF runId \in DOMAIN events THEN events[runId] ELSE <<>>)
                        /\ lastRead'.transcripts =
                             (IF runId \in DOMAIN transcripts
                              THEN transcripts[runId] ELSE <<>>)
                   ELSE /\ lastRead'.code = 404
                        /\ lastRead'.tests = <<>>
       /\ ListTests =>
            /\ UNCHANGED <<testRuns, events, transcripts>>
            /\ lastRead'.tests = testRuns]_vars

\* A read of a run answered while its stopTest is suspended on the provider
C16_ReadDuringStop ==
    \E r \in RunIds :
        /\ lastRead.route = "get"
        /\ lastRead.code = 200
        /\ DOMAIN lastRead.tests = {r}
        /\ lastRead.tests[r] = testRuns[r]
        /\ lastRead.events = EventsOf(r)
        /\ stopsInFlight[r] > 0

\* C15: when the process exits on SIGTERM, stopTest has been invoked for
\* every run that is not completed.
C15_ShutdownStopsEveryRun ==
    shutdown.phase = "exited"
        => \A r \in RunIds : NonTerminal(r) => r \in shutdown.stopped

\* C21: a stop request or a timeout stop for a run that is already
\* completed, or for a run id the registry does not hold, sends no request
\* to a provider and leaves the registry, every event log and every
\* transcript as they were.
C21_StopOfSettledRunIsNoOp ==
    [][\A r \in RunIds :
         (StatusOf(r) \in {"none", "completed"} /\ (StopApi(r) \/ AutoStopTimer(r)))
            => UNCHANGED <<store, provider, stopsInFlight>>]_vars

\* A completed run that still holds the identifier of its call, and an
\* unknown run id, both with the stop endpoint answering
C21_StopOfSettledRunAccepted ==
    \E r \in RunIds, u \in RunIds :
        /\ StatusOf(r) = "completed"
        /\ EndsExternalCall(testRuns[r])
        /\ StatusOf(u) = "none"
        /\ ENABLED StopApi(r)
        /\ ENABLED StopApi(u)

\* C22: once a stop has completed a run while its startTest is still
\* suspended (awaiting the placement of a call, or its deferred step), the
\* step in which startTest resumes leaves the run completed, and a call
\* that is live for the run after that step has been sent an end request.
C22_StopDuringStartIsFinal ==
    [][\A r \in RunIds :
         (/\ StatusOf(r) = "completed"
          /\ \/ \E ok \in BOOLEAN : CreateVapiCallReturns(r, ok)
             \/ \E ok \in BOOLEAN : TwilioCallReturns(r, ok)
             \/ DeferredTwiml(r)
             \/ \E ok \in BOOLEAN : InterviewerAddReturns(r, ok)
             \/ DeferredConference(r)
             \/ \E ok \in BOOLEAN : UltravoxCallReturns(r, ok)
             \/ \E ok \in BOOLEAN : CandidateAddReturns(r, ok))
            => /\ StatusOf(r)' = "completed"
               /\ r \in liveCalls' => endRequests'[r] > 0]_vars

\* C23: in the conference revision the deferred step that requests the
\* second participant's call runs only when a provider notification about
\* the run's conference or its first participant has been received.
C23_SecondLegAfterConfirmation ==
    [][\A r \in RunIds :
         DeferredConference(r)
            => CountType(EventsOf(r), {"participant_event", "conference_event"}) > 0]_vars

\* C24: no run has been answered with a failure while the conference or
\* call created for it is still live.
C24_FailedStartLeavesNothingLive ==
    \A r \in RunIds : response[r] = "error" => r \notin liveCalls

\* C25: a Vapi webhook whose type is none of call-start, call-end and
\* transcript, and whose call id resolves to a run, leaves that run's
\* status, end time and participants as they were.
C25_OtherTypeKeepsRun ==
    [][\A id \in HookIds :
         LET r == FindByVapiCallId(id) IN
         (r # Undefined /\ VapiWebhook("status-update", id, NoTranscript, "undefined"))
            => /\ Settled(r)' = Settled(r)
               /\ testRuns' = testRuns]_vars

\* A run whose latest event records a webhook of another type
C25_OtherTypeRecorded ==
    \E r \in RunIds :
        /\ StatusOf(r) = "running"
        /\ EventsOf(r) # <<>>
        /\ EventsOf(r)[Len(EventsOf(r))].type = "vapi_webhook"

\* C26: every Vapi webhook of type transcript whose call id resolves to a
\* run appends exactly one entry to that run's transcript and exactly one
\* 'transcript' event, the two carrying the same speaker, text and
\* finality flag, and changes nothing else of the run.
C26_TranscriptAppendsOnePair ==
    [][\A id \in HookIds, b \in TranscriptBodies :
         LET r == FindByVapiCallId(id) IN
         (r # Undefined /\ VapiWebhook("transcript", id, b.transcript, b.role))
            => LET tr == TranscriptsOf(r)'
                   ev == EventsOf(r)'
               IN  /\ Len(tr) = Len(TranscriptsOf(r)) + 1
                   /\ Len(ev) = Len(EventsOf(r)) + 1
                   /\ SubSeq(tr, 1, Len(tr) - 1) = TranscriptsOf(r)
                   /\ SubSeq(ev, 1, Len(ev) - 1) = EventsOf(r)
                   /\ ev[Len(ev)].type = "transcript"
                   /\ ev[Len(ev)].data.words
                        = <<tr[Len(tr)].participant, tr[Len(tr)].text, tr[Len(tr)].final>>
                   /\ testRuns' = testRuns]_vars

\* C27: once a run is completed, no webhook appends an event to its event
\* log or an entry to its transcript.
C27_NoAppendAfterTermination ==
    [][\A r \in RunIds :
         (StatusOf(r) = "completed" /\ Webhook)
            => /\ EventsOf(r)' = EventsOf(r)
               /\ TranscriptsOf(r)' = TranscriptsOf(r)]_vars

\* C28: in every reachable state every registered run has a participants
\* mapping with exactly the two keys interviewer and candidate.
C28_TwoParticipantsAlways ==
    \A r \in DOMAIN testRuns :
        DOMAIN testRuns[r].participants = {"interviewer", "candidate"}

\* C29: a participant's connection status never moves back along
\* pending, connecting, connected, disconnected, whatever webhooks arrive.
\* The names the code writes are placed on that order: 'calling',
\* 'receiving' and 'ringing' count as connecting, 'answered' as connected,
\* 'completed' as disconnected, and a participant without a status as
\* pending.
C29_ConnectionStatusMovesForward ==
    [][\A r \in RunIds, role \in {"interviewer", "candidate"} :
         LET Stage(status) ==
                CASE status \in {"calling", "receiving", "ringing", "connecting"} -> 1
                  [] status \in {"answered", "connected"} -> 2
                  [] status \in {"completed", "disconnected"} -> 3
                  [] OTHER -> 0
         IN
         (/\ Has(testRuns, r)
          /\ role \in DOMAIN testRuns[r].participants
          /\ role \in DOMAIN testRuns'[r].participants)
            => Stage(testRuns'[r].participants[role].status)
                 >= Stage(testRuns[r].participants[role].status)]_vars

C31_RegistryOnlyGrows ==
    [][/\ \A r \in RunIds : Has(testRuns, r) => Has(testRuns', r)
       /\ ListTests => DOMAIN lastRead'.tests = DOMAIN testRuns
       /\ lastRead.route = "list" => DOMAIN lastRead.tests \subseteq DOMAIN testRuns']_vars

\* A run that was listed while starting and has been completed since
C31_ListedThenCompleted ==
    /\ lastRead.route = "list"
    /\ \E r \in DOMAIN lastRead.tests :
        /\ lastRead.tests[r].status # "completed"
        /\ StatusOf(r) = "completed"

\* C32: every 'test_completed' event of a run is the last entry of that
\* run's event log, in the step that appends it and in every later state,
\* a log holds at most one of them, and the duration it carries is not
\* negative.
C32_CompletionEventStaysLast ==
    \A r \in RunIds :
        \A i \in DOMAIN EventsOf(r) :
            EventsOf(r)[i].type = "test_completed"
                => /\ i = Len(EventsOf(r))
                   /\ EventsOf(r)[i].data.ids[1] >= 0

\* C33: a webhook that carries identifier X changes the registry entry,
\* the event log or the transcript of at most one run, and that run has
\* recorded X as its call id, call sid, conference sid or conference name.
C33_WebhookTouchesOwnerOnly ==
    [][LET changed == {r \in RunIds :
                        \/ Has(testRuns, r) /\ testRuns'[r] # testRuns[r]
                        \/ EventsOf(r)' # EventsOf(r)
                        \/ TranscriptsOf(r)' # TranscriptsOf(r)}
       IN
       (changed # {} /\ UNCHANGED <<procs, provider>>)
          => \A id \in HookIds \ {Undefined} :
               (\/ WebhookWith(id)
                \/ \E CallSid \in HookIds \cup {CandidateSidOf(r) : r \in RunIds},
                      StatusCallbackEvent \in LegEvents :
                      TwilioParticipantStatus(CallSid, id, StatusCallbackEvent))
                  => /\ Cardinality(changed) <= 1
                     /\ \A r \in changed :
                          /\ Has(testRuns, r)
                          /\ id \in {testRuns[r].vapiCallId, testRuns[r].conferenceSid,
                                     testRuns[r].conferenceName,
                                     InterviewerCallSid(testRuns[r])}]_vars

\* Two runs in flight, the second one marked by a webhook carrying its
\* call id and the first one as its startTest left it
C33_SecondRunNotified ==
    /\ StatusOf(1) = "running"
    /\ StatusOf(2) = "active"
    /\ CountType(EventsOf(2), {"call_started"}) = 1
    /\ CountType(EventsOf(1), {"call_started"}) = 0

\* C34: a webhook never leaves a partial update: whenever a webhook
\* changes a run's status, the run has both participant entries after the
\* step and exactly one event has been appended to the run's log.
C34_WebhookUpdateIsWhole ==
    [][\A r \in RunIds :
         (Webhook /\ Has(testRuns, r) /\ StatusOf(r)' # StatusOf(r))
            => /\ Len(EventsOf(r)') = Len(EventsOf(r)) + 1
               /\ DOMAIN testRuns'[r].participants = {"interviewer", "candidate"}]_vars

\* C35: the lookup by external identifier holds an entry for an
\* identifier exactly from the step in which a run records it until the
\* run is torn down: an identifier resolves to a run if and only if that
\* run has recorded it and is not completed.
C35_LookupEndsWithTeardown ==
    \A id \in HookIds \ {Undefined} :
        \A r \in RunIds :
            (\/ FindByVapiCallId(id) = r
             \/ FindByCallSid(id) = r
             \/ FindByConferenceSid(id) = r
             \/ FindByConferenceName(id) = r)
              <=> /\ Has(testRuns, r)
                  /\ id \in {testRuns[r].vapiCallId, testRuns[r].conferenceSid,
                             testRuns[r].conferenceName, InterviewerCallSid(testRuns[r])}
                  /\ testRuns[r].status # "completed"

\* C36: in the revisions whose stopTest ends a conference, when the
\* provider rejects the end request the stop returns and leaves the run as
\* it was: the registry, the event logs and the transcripts are unchanged,
\* so the status is not set to 'completed', no end time is written and no
\* 'test_completed' event is appended; the set of live conferences is
\* unchanged too.
C36_RejectedEndLeavesRun ==
    [][\A r \in RunIds :
         (variant \in {"simple", "conference"} /\ StopTestResume(r, FALSE))
            => /\ UNCHANGED store
               /\ stopsInFlight'[r] = stopsInFlight[r] - 1
               /\ liveCalls' = liveCalls]_vars

\* A conference run whose only stop has returned after a rejected end
\* request: still running, without end time or completion event
C36_StopReturnedRunStillRunning ==
    \E r \in RunIds :
        /\ variant = "conference"
        /\ StatusOf(r) = "running"
        /\ endRequests[r] = 1
        /\ stopsInFlight[r] = 0
        /\ testRuns[r].endTime = Undefined
        /\ CountType(EventsOf(r), {"test_completed"}) = 0

\* C37: in every reachable state a registered run has an end time if and
\* only if its status is 'completed'.
C37_EndTimeIffCompleted ==
    \A r \in DOMAIN testRuns :
        testRuns[r].endTime # Undefined <=> testRuns[r].status = "completed"

\* C38: every key of the event store and of the transcript store is the
\* identifier of a run in the registry.
C38_StoresKeyedByRegisteredRuns ==
    DOMAIN events \cup DOMAIN transcripts \subseteq DOMAIN testRuns

====
